---- MODULE Spec2Model ----
(***************************************************************************)
(* Model of the polygon-mcp query pipeline: ticker resolution              *)
(* (extract_ticker), the market-data gateway results, report synthesis     *)
(* (analyze_stock_query / analyze_query), the finance guardrail and the    *)
(* narrative step of Home.py, and the chat handlers of both entry points.  *)
(* got holds what each external service answered, fetched what each        *)
(* gateway method handed back to the analysis function, calls the calls    *)
(* made so far in order: the names of the external calls of a handler, or  *)
(* the arguments and results of the saves when saving is run on its own.   *)
(*                                                                         *)
(* Text is modelled at character level where the code inspects characters  *)
(* (ticker resolution): a query is a sequence of one-character strings.    *)
(* Report text is a sequence of lines, each a record [k, t] where t is the *)
(* text the code appends and k names the statement that appended it.       *)
(***************************************************************************)
EXTENDS Integers, Sequences, FiniteSets, TLC

VARIABLES entry, pc, query, messages, validation, ticker, response,
          calls, got, fetched, raised, polygon_data, full_response, saved

vars == <<entry, pc, query, messages, validation, ticker, response,
          calls, got, fetched, raised, polygon_data, full_response, saved>>

-----------------------------------------------------------------------------
(* Bounds of the model *)

\* longest query, in words, of the ticker-resolution corpus
MaxWords == 3

\* longest article list a news payload carries
MaxNews == 4

\* the number of calls of save_analysis_report in a row
MaxSaves == 2

-----------------------------------------------------------------------------
(* Characters and strings *)

UpperLetters == <<"A","B","C","D","E","F","G","H","I","J","K","L","M","N","O","P","Q","R","S","T","U","V","W","X","Y","Z">>
LowerLetters == <<"a","b","c","d","e","f","g","h","i","j","k","l","m","n","o","p","q","r","s","t","u","v","w","x","y","z">>
Digits == {"0","1","2","3","4","5","6","7","8","9"}

UpperSet == {UpperLetters[i] : i \in 1..26}
LowerSet == {LowerLetters[i] : i \in 1..26}

IsUpper(c) == c \in UpperSet
IsLower(c) == c \in LowerSet
IsLetter(c) == IsUpper(c) \/ IsLower(c)

\* \w of the re module: letters, digits and underscore
IsWordChar(c) == IsLetter(c) \/ c \in Digits \/ c = "_"

\* \s of the re module (the corpus separates words by blanks only)
IsSpace(c) == c = " "

ToLowerMap == [c \in UpperSet |-> LowerLetters[CHOOSE i \in 1..26 : UpperLetters[i] = c]]
ToUpperMap == [c \in LowerSet |-> UpperLetters[CHOOSE i \in 1..26 : LowerLetters[i] = c]]

LowerChar(c) == IF IsUpper(c) THEN ToLowerMap[c] ELSE c
UpperChar(c) == IF IsLower(c) THEN ToUpperMap[c] ELSE c

\* str.lower() and str.upper()
Lower(s) == [i \in 1..Len(s) |-> LowerChar(s[i])]
Upper(s) == [i \in 1..Len(s) |-> UpperChar(s[i])]

\* the Python string of a character sequence
RECURSIVE Str(_)
Str(s) == IF s = <<>> THEN "" ELSE Head(s) \o Str(Tail(s))

\* `needle in hay` on strings: needle occurs as a contiguous substring
Contains(hay, needle) ==
    \E i \in 1..(Len(hay) - Len(needle) + 1) :
        SubSeq(hay, i, i + Len(needle) - 1) = needle

\* hay[i:] starts with lit, compared case-insensitively when ic
StartsAt(hay, i, lit, ic) ==
    /\ i >= 1
    /\ i + Len(lit) - 1 <= Len(hay)
    /\ LET piece == SubSeq(hay, i, i + Len(lit) - 1)
       IN  IF ic THEN Lower(piece) = Lower(lit) ELSE piece = lit

-----------------------------------------------------------------------------
(* Regular-expression pieces used by the ticker patterns *)

\* [A-Z], which re.IGNORECASE widens to both cases
ClassAZ(c, ic) == IF ic THEN IsLetter(c) ELSE IsUpper(c)

\* \b at position i: between s[i-1] and s[i] exactly one is a word character
WordBoundary(s, i) ==
    ((i > 1 /\ i - 1 <= Len(s)) /\ IsWordChar(s[i-1])) # ((i >= 1 /\ i <= Len(s)) /\ IsWordChar(s[i]))

\* length of the longest run of [A-Z] characters that starts at i
RECURSIVE RunLen(_, _, _)
RunLen(s, i, ic) ==
    IF i >= 1 /\ i <= Len(s) /\ ClassAZ(s[i], ic) THEN 1 + RunLen(s, i + 1, ic) ELSE 0

\* ([A-Z]{lo,hi})\b at i: the length matched, 0 when there is no match.
\* Inside a run the next character is a letter, so \b can only hold at the
\* end of the run: the greedy match is the whole run or nothing.
GroupLen(s, i, lo, hi, ic) ==
    LET r == RunLen(s, i, ic)
    IN  IF r >= lo /\ r <= hi /\ WordBoundary(s, i + r) THEN r ELSE 0

\* \s+ at i: the position after the blanks, 0 when no blank stands at i
RECURSIVE SkipSpaces(_, _)
SkipSpaces(s, i) ==
    IF i >= 1 /\ i <= Len(s) /\ IsSpace(s[i])
    THEN (IF i + 1 <= Len(s) /\ IsSpace(s[i+1]) THEN SkipSpaces(s, i + 1) ELSE i + 1)
    ELSE 0

kw_stock == <<"s","t","o","c","k">>
kw_price == <<"p","r","i","c","e">>
kw_shares == <<"s","h","a","r","e","s">>
kw_ticker == <<"t","i","c","k","e","r">>
kw_symbol == <<"s","y","m","b","o","l">>

\* the match of a pattern at position i, as [at, len] of its group; len = 0: none
NoMatch == [at |-> 0, len |-> 0]

\* r'\b([A-Z]{1,5})\b(?:\s+(?:stock|price|shares|ticker))'
PatSuffixAt(s, i, ic) ==
    LET r == GroupLen(s, i, 1, 5, ic)
        j == SkipSpaces(s, i + r)
    IN  IF /\ WordBoundary(s, i)
           /\ r > 0
           /\ j > 0
           /\ \E kw \in {kw_stock, kw_price, kw_shares, kw_ticker} : StartsAt(s, j, kw, ic)
        THEN [at |-> i, len |-> r] ELSE NoMatch

\* r'(?:ticker|symbol)\s+([A-Z]{1,5})\b'
PatPrefixAt(s, i, ic) ==
    IF \E kw \in {kw_ticker, kw_symbol} : StartsAt(s, i, kw, ic)
    THEN LET j == SkipSpaces(s, i + 6)
             r == IF j > 0 THEN GroupLen(s, j, 1, 5, ic) ELSE 0
         IN  IF r > 0 THEN [at |-> j, len |-> r] ELSE NoMatch
    ELSE NoMatch

\* r'\$([A-Z]{1,5})\b'
PatDollarAt(s, i, ic) ==
    LET r == GroupLen(s, i + 1, 1, 5, ic)
    IN  IF s[i] = "$" /\ r > 0 THEN [at |-> i + 1, len |-> r] ELSE NoMatch

\* r'\b([A-Z]{2,5})\b'
PatBareAt(s, i, ic) ==
    LET r == GroupLen(s, i, 2, 5, ic)
    IN  IF WordBoundary(s, i) /\ r > 0 THEN [at |-> i, len |-> r] ELSE NoMatch

PatAt(p, s, i, ic) ==
    CASE p = 1 -> PatSuffixAt(s, i, ic)
      [] p = 2 -> PatPrefixAt(s, i, ic)
      [] p = 3 -> PatDollarAt(s, i, ic)
      [] p = 4 -> PatBareAt(s, i, ic)

\* re.findall(pattern, s)[0]: the group of the leftmost match, <<>> when
\* findall returns the empty list
FirstMatch(p, s, ic) ==
    LET hits == {i \in 1..Len(s) : PatAt(p, s, i, ic).len > 0}
    IN  IF hits = {} THEN <<>>
        ELSE LET i == CHOOSE h \in hits : \A g \in hits : h <= g
                 m == PatAt(p, s, i, ic)
             IN  SubSeq(s, m.at, m.at + m.len - 1)

-----------------------------------------------------------------------------
(* Ticker resolution *)

\* Python's None
None == "<None>"

\* the flag every pattern is searched with (re.IGNORECASE)
IgnoreCase == TRUE

\* variant: the $ pattern heads the list
ticker_patterns_sigil_first == <<3, 1, 2, 4>>

\* ticker_patterns, by position in the list
ticker_patterns == <<1, 2, 3, 4>>

company_mappings ==
  << <<<<"a","p","p","l","e">>, "AAPL">>,
     <<<<"m","i","c","r","o","s","o","f","t">>, "MSFT">>,
     <<<<"g","o","o","g","l","e">>, "GOOGL">>,
     <<<<"a","l","p","h","a","b","e","t">>, "GOOGL">>,
     <<<<"a","m","a","z","o","n">>, "AMZN">>,
     <<<<"t","e","s","l","a">>, "TSLA">>,
     <<<<"m","e","t","a">>, "META">>,
     <<<<"f","a","c","e","b","o","o","k">>, "META">>,
     <<<<"n","v","i","d","i","a">>, "NVDA">>,
     <<<<"n","e","t","f","l","i","x">>, "NFLX">>,
     <<<<"d","i","s","n","e","y">>, "DIS">>,
     <<<<"w","a","l","m","a","r","t">>, "WMT">>,
     <<<<"c","o","c","a"," ","c","o","l","a">>, "KO">>,
     <<<<"p","e","p","s","i">>, "PEP">>,
     <<<<"j","o","h","n","s","o","n">>, "JNJ">>,
     <<<<"v","i","s","a">>, "V">>,
     <<<<"m","a","s","t","e","r","c","a","r","d">>, "MA">>,
     <<<<"i","n","t","e","l">>, "INTC">>,
     <<<<"a","m","d">>, "AMD">>,
     <<<<"i","b","m">>, "IBM">>,
     <<<<"o","r","a","c","l","e">>, "ORCL">>,
     <<<<"s","a","l","e","s","f","o","r","c","e">>, "CRM">>,
     <<<<"a","d","o","b","e">>, "ADBE">>,
     <<<<"z","o","o","m">>, "ZM">>,
     <<<<"u","b","e","r">>, "UBER">>,
     <<<<"l","y","f","t">>, "LYFT">>,
     <<<<"a","i","r","b","n","b">>, "ABNB">>,
     <<<<"s","p","o","t","i","f","y">>, "SPOT">>,
     <<<<"t","w","i","t","t","e","r">>, "TWTR">>,
     <<<<"s","n","a","p","c","h","a","t">>, "SNAP">>,
     <<<<"p","i","n","t","e","r","e","s","t">>, "PINS">>,
     <<<<"s","q","u","a","r","e">>, "SQ">>,
     <<<<"p","a","y","p","a","l">>, "PYPL">>,
     <<<<"c","o","i","n","b","a","s","e">>, "COIN">>,
     <<<<"r","o","b","i","n","h","o","o","d">>, "HOOD">> >>

\* the dictionary entries whose name the lower-cased query contains
DictHits(q) ==
    LET query_lower == Lower(q)
    IN  {k \in 1..Len(company_mappings) : Contains(query_lower, company_mappings[k][1])}

\* the loop over company_mappings.items(): the first entry, in insertion
\* order, whose name is in query_lower
DictLookup(q) ==
    LET hits == DictHits(q)
    IN  IF hits = {} THEN None
        ELSE company_mappings[CHOOSE k \in hits : \A j \in hits : k <= j][2]

\* the loop over ticker_patterns from position n on: the first pattern with a
\* match whose upper-cased first group has 1..5 characters
RECURSIVE PatternLookup(_, _)
PatternLookup(q, n) ==
    IF n > Len(ticker_patterns) THEN None
    ELSE LET m == FirstMatch(ticker_patterns[n], q, IgnoreCase)
         IN  IF m # <<>> /\ 1 <= Len(Upper(m)) /\ Len(Upper(m)) <= 5
             THEN Str(Upper(m))
             ELSE PatternLookup(q, n + 1)

\* variant: the patterns are tried before the dictionary
extract_ticker_patterns_first(q) ==
    LET found == PatternLookup(q, 1)
    IN  IF found # None THEN found ELSE DictLookup(q)

\* utils/polygon_mcp_util.py extract_ticker
extract_ticker(q) ==
    LET found == DictLookup(q)
    IN  IF found # None THEN found ELSE PatternLookup(q, 1)

company_tickers ==
  << <<<<"M","I","C","R","O","S","O","F","T">>, "MSFT">>,
     <<<<"A","P","P","L","E">>, "AAPL">>,
     <<<<"G","O","O","G","L","E">>, "GOOGL">>,
     <<<<"A","M","A","Z","O","N">>, "AMZN">>,
     <<<<"T","E","S","L","A">>, "TSLA">>,
     <<<<"M","E","T","A">>, "META">>,
     <<<<"N","V","I","D","I","A">>, "NVDA">> >>

SimpleDictHits(q) ==
    LET query_upper == Upper(q)
    IN  {k \in 1..Len(company_tickers) : Contains(query_upper, company_tickers[k][1])}

\* simple_demo.py extract_ticker: the pattern is searched in query.upper(),
\* the dictionary decides first, then the first pattern match
simple_extract_ticker(q) ==
    LET query_upper == Upper(q)
        matches == FirstMatch(4, query_upper, FALSE)
        hits == SimpleDictHits(q)
    IN  IF hits # {}
        THEN company_tickers[CHOOSE k \in hits : \A j \in hits : k <= j][2]
        ELSE IF matches # <<>> THEN Str(matches) ELSE None

\* the resolver the entry point e imports
ExtractTicker(e, q) == IF e = "home" THEN extract_ticker(q) ELSE simple_extract_ticker(q)

-----------------------------------------------------------------------------
(* Queries *)

w_apple == <<"a","p","p","l","e">>
w_Microsoft == <<"M","i","c","r","o","s","o","f","t">>
w_META == <<"M","E","T","A">>
w_netflix == <<"n","e","t","f","l","i","x">>
w_AAPL == <<"A","A","P","L">>
w_dTSLA == <<"$","T","S","L","A">>
w_stock == <<"s","t","o","c","k">>
w_ticker == <<"t","i","c","k","e","r">>
w_Show == <<"S","h","o","w">>
w_information == <<"i","n","f","o","r","m","a","t","i","o","n">>
w_a == <<"a">>
w_42 == <<"4","2">>

Words == {w_apple, w_Microsoft, w_META, w_netflix, w_AAPL, w_dTSLA, w_stock,
          w_ticker, w_Show, w_information, w_a, w_42}

\* the words of ws separated by single blanks
RECURSIVE JoinWords(_)
JoinWords(ws) ==
    IF Len(ws) = 0 THEN <<>>
    ELSE IF Len(ws) = 1 THEN ws[1]
    ELSE ws[1] \o <<" ">> \o JoinWords(Tail(ws))

\* every query of 1..MaxWords words of the vocabulary
Corpus == {JoinWords(ws) : ws \in UNION {[1..n -> Words] : n \in 1..MaxWords}}

-----------------------------------------------------------------------------
(* JSON values of a payload, as Python sees them *)

\* dict.get(key) of a key the mapping lacks; JSON null; a number; a string.
\* A price number counts cents, every other number counts units.
Missing == [t |-> "missing"]
Null == [t |-> "null"]
Num(n) == [t |-> "num", n |-> n]
Txt(s) == [t |-> "str", s |-> s]

\* dict.get(key) without a default yields None for a missing key
IsNone(v) == v.t \in {"missing", "null"}

\* bool(v): None, 0 and "" are false
Truthy(v) ==
    CASE v.t = "num" -> v.n # 0
      [] v.t = "str" -> v.s # ""
      [] OTHER -> FALSE

\* float(v) / int(v) of a value: [ok, n]; ok = FALSE stands for the ValueError
\* (unparsable text) or TypeError (None) the conversion raises
ToNumber(v) ==
    CASE v.t = "num" -> [ok |-> TRUE, n |-> v.n]
      [] v.t = "str" /\ v.s = "0" -> [ok |-> TRUE, n |-> 0]
      [] OTHER -> [ok |-> FALSE, n |-> 0]

\* str(v) inside an f-string
PyStr(v) ==
    CASE v.t = "str" -> v.s
      [] v.t = "num" -> ToString(v.n)
      [] OTHER -> "None"

\* str.upper() on the texts the payloads carry
UpperText(s) ==
    CASE s = "stocks" -> "STOCKS"
      [] s = "usd" -> "USD"
      [] s = "N/A" -> "N/A"
      [] s = "USD" -> "USD"
      [] OTHER -> s

-----------------------------------------------------------------------------
(* Number formatting *)

Abs(n) == IF n < 0 THEN 0 - n ELSE n

Pad2(n) == IF n < 10 THEN "0" \o ToString(n) ELSE ToString(n)
Pad3(n) == IF n < 10 THEN "00" \o ToString(n) ELSE IF n < 100 THEN "0" \o ToString(n) ELSE ToString(n)

\* format spec ',' on a natural number: groups of three digits
RECURSIVE Grouped(_)
Grouped(n) == IF n < 1000 THEN ToString(n) ELSE Grouped(n \div 1000) \o "," \o Pad3(n % 1000)

\* num / den rounded to the nearest integer, ties to even (num >= 0, den > 0):
\* what the format spec .1f gives for the quotients the model's payloads
\* produce: none lies halfway between two tenths but 999.95, whose nearest
\* float the format spec prints as 1000.0, as this rounding does
RoundDiv(num, den) ==
    LET q == num \div den
        r == num % den
    IN  IF 2 * r > den \/ (2 * r = den /\ q % 2 = 1) THEN q + 1 ELSE q

\* f"{x:,.2f}" of an amount of cents
Fixed2(cents) ==
    (IF cents < 0 THEN "-" ELSE "") \o Grouped(Abs(cents) \div 100) \o "." \o Pad2(Abs(cents) % 100)

\* f"{x:+.2f}" of an amount of hundredths
Signed2(h) ==
    (IF h < 0 THEN "-" ELSE "+") \o ToString(Abs(h) \div 100) \o "." \o Pad2(Abs(h) % 100)

\* f"{x:.1f}" of an amount of tenths
Fixed1(tenths) == ToString(tenths \div 10) \o "." \o ToString(tenths % 10)

\* format_price: [ok, t]; it catches ValueError and TypeError itself
format_price(v) ==
    IF IsNone(v) \/ (v.t = "str" /\ v.s = "N/A") THEN "N/A"
    ELSE IF ToNumber(v).ok THEN "$" \o Fixed2(ToNumber(v).n)
    ELSE PyStr(v)

\* format_volume
format_volume(v) ==
    IF IsNone(v) \/ (v.t = "str" /\ v.s = "N/A") THEN "N/A"
    ELSE IF ToNumber(v).ok
         THEN LET vol == ToNumber(v).n
              IN  IF vol >= 1000000 THEN Fixed1(RoundDiv(vol, 100000)) \o "M"
                  ELSE IF vol >= 1000 THEN Fixed1(RoundDiv(vol, 100)) \o "K"
                  ELSE Grouped(vol)
         ELSE PyStr(v)

\* variant: the billions branch is missing
market_cap_text_no_billions(mc) ==
    IF mc >= 1000000 THEN "$" \o Fixed1(RoundDiv(mc, 100000)) \o "M"
    ELSE "$" \o Grouped(mc)

\* the market-cap line of the details section
market_cap_text(mc) ==
    IF mc >= 1000000000 THEN "$" \o Fixed1(RoundDiv(mc, 100000000)) \o "B"
    ELSE IF mc >= 1000000 THEN "$" \o Fixed1(RoundDiv(mc, 100000)) \o "M"
    ELSE "$" \o Grouped(mc)

\* str() of a price number (cents) as an f-string prints it without a format spec
RawNumber(c) ==
    IF c % 100 = 0 THEN ToString(c \div 100)
    ELSE IF c % 10 = 0 THEN ToString(c \div 100) \o "." \o ToString((c % 100) \div 10)
    ELSE ToString(c \div 100) \o "." \o Pad2(c % 100)

-----------------------------------------------------------------------------
(* What the market-data provider can answer *)

\* results of the ticker-details endpoint: a dict of the displayed fields
DetailsDict(name, market, type, currency, cap) ==
    [t |-> "dict", name |-> name, market |-> market, type |-> type,
     currency_name |-> currency, market_cap |-> cap]

details_full == DetailsDict(Txt("Apple Inc."), Txt("stocks"), Txt("CS"), Txt("usd"), Num(2000000000))
details_small == DetailsDict(Txt("Apple Inc."), Txt("stocks"), Txt("CS"), Txt("usd"), Num(900000000))
\* a non-empty dict that lacks every displayed field
details_sparse == DetailsDict(Missing, Missing, Missing, Missing, Missing)
\* "market": null
details_null_market == DetailsDict(Txt("Apple Inc."), Null, Txt("CS"), Txt("usd"), Missing)
\* a market cap below a million, and "market_cap": 0
details_tiny == DetailsDict(Txt("Apple Inc."), Txt("stocks"), Txt("CS"), Txt("usd"), Num(500000))
details_zero_cap == DetailsDict(Txt("Apple Inc."), Txt("stocks"), Txt("CS"), Txt("usd"), Num(0))

NoResults == [t |-> "missing"]
EmptyResults == [t |-> "empty"]

DetailsResults ==
    {NoResults, EmptyResults, details_full, details_small, details_sparse, details_null_market,
     details_tiny, details_zero_cap}

\* one bar of the previous-close endpoint
Bar(o, c, h, l, v) == [o |-> o, c |-> c, h |-> h, l |-> l, v |-> v]

OpenValues == {Missing, Null, Num(0), Num(10000), Txt("0")}
CloseValues == {Missing, Num(0), Num(11000)}

\* share counts below a thousand, in the thousands and in the millions
VolumeValues == {Num(500), Num(1500), Num(2500000)}

\* a day that closes at its open, and a day that closes below it
unchanged_bar == Bar(Num(10000), Num(10000), Num(11200), Num(9900), Num(1500))
falling_bar == Bar(Num(11000), Num(10000), Num(11200), Num(9900), Num(1500))

Bars == {Bar(o, c, Num(11200), Num(9900), Num(1500)) : o \in OpenValues, c \in CloseValues}
          \cup {Bar(Missing, Missing, Missing, Missing, Missing)}
          \cup {Bar(Num(10000), Num(11000), Num(11200), Num(9900), v) : v \in VolumeValues}
          \cup {unchanged_bar, falling_bar}

PriceResults == {NoResults, EmptyResults} \cup {[t |-> "list", items |-> <<b>>] : b \in Bars}

\* one article of the news endpoint
Article(title, published, url) == [title |-> title, published_utc |-> published, article_url |-> url]

article_full == Article(Txt("Apple hits record"), Txt("2024-01-15T10:30:00Z"), Txt("https://n.example/1"))
article_bare == Article(Missing, Missing, Missing)

Articles == {article_full, article_bare}

NewsResults ==
    {NoResults, EmptyResults}
      \cup {[t |-> "list", items |-> as] : as \in UNION {[1..n -> Articles] : n \in 1..MaxNews}}

ResultsOf(kind) ==
    CASE kind = "details" -> DetailsResults
      [] kind = "price" -> PriceResults
      [] kind = "aggregates" -> PriceResults
      [] kind = "news" -> NewsResults

\* what the server does with a request: the connection fails (status 0), it
\* never answers (status -2), it answers a non-200 status, it answers 200
\* with a body response.json() cannot decode, or it answers 200 with a
\* decodable payload
Http(status, detail, decodable, results) ==
    [status |-> status, detail |-> detail, decodable |-> decodable, results |-> results]

HttpResponses(kind) ==
    {Http(0, "Connection refused", FALSE, NoResults),
     Http(-2, "", FALSE, NoResults),
     Http(500, "Internal Server Error", FALSE, NoResults),
     Http(200, "Expecting value: line 1 column 1 (char 0)", FALSE, NoResults)}
      \cup {Http(200, "", TRUE, r) : r \in ResultsOf(kind)}

\* how a gateway method ends, and the mapping it returns: the keys the
\* pipeline reads
Payload(error, results) == [ends |-> "returns", error |-> error, results |-> results]

\* the method never returns: its request waits for an answer without limit
Blocks == [ends |-> "blocks", error |-> Missing, results |-> NoResults]

\* the method lets the exception of its request reach its caller
Raises(type) == [ends |-> type, error |-> Missing, results |-> NoResults]

\* session.get(url, params=params, timeout=10): seconds waited for an answer
request_timeout == 10

\* str(e) of the ReadTimeout that session.get raises after the timeout
read_timeout_text ==
    "HTTPSConnectionPool(host='api.polygon.io', port=443): Read timed out. (read timeout="
      \o ToString(request_timeout) \o ")"

\* variant: the request is made outside the try block
api_get_unprotected(h) ==
    IF h.status = -2 THEN Raises("ReadTimeout")
    ELSE IF h.status = 0 THEN Raises("ConnectionError")
    ELSE IF h.status # 200 THEN Payload(Txt("HTTP " \o ToString(h.status) \o ": " \o h.detail), NoResults)
    ELSE IF ~h.decodable THEN Raises("JSONDecodeError")
    ELSE Payload(Missing, h.results)

\* utils/polygon_mcp_util.py PolygonAPI.get_ticker_details / get_previous_close /
\* get_aggregates / get_news
api_get(h) ==
    IF h.status = -2 THEN Payload(Txt("Request failed: " \o read_timeout_text), NoResults)
    ELSE IF h.status = 0 THEN Payload(Txt("Request failed: " \o h.detail), NoResults)
    ELSE IF h.status # 200 THEN Payload(Txt("HTTP " \o ToString(h.status) \o ": " \o h.detail), NoResults)
    ELSE IF ~h.decodable THEN Payload(Txt("Request failed: " \o h.detail), NoResults)
    ELSE Payload(Missing, h.results)

\* simple_demo.py PolygonAPI.get_ticker_details / get_latest_quote /
\* get_aggregates / get_news: requests.get(url, params=params) sets no timeout
simple_api_get(h) ==
    IF h.status = -2 THEN Blocks
    ELSE IF h.status = 0 THEN Payload(Txt(h.detail), NoResults)
    ELSE IF h.status # 200 THEN Payload(Txt("HTTP " \o ToString(h.status)), NoResults)
    ELSE IF ~h.decodable THEN Payload(Txt(h.detail), NoResults)
    ELSE Payload(Missing, h.results)

ApiGet(e, h) == IF e = "home" THEN api_get(h) ELSE simple_api_get(h)

\* the call succeeded with non-empty results
HasResults(h) == h.status = 200 /\ h.decodable /\ h.results.t \in {"dict", "list"}

\* the call failed: exception, non-200 status or undecodable body
Failed(h) == h.status # 200 \/ ~h.decodable

-----------------------------------------------------------------------------
(* Report text *)

\* A line of text: the fragments an f-string or literal is made of, in order,
\* and the statement that appended it.  The report is its lines joined by
\* newlines; the pictographs of the source's literals are left out.
Line(k, frags) == [k |-> k, t |-> frags]
Blank == Line("blank", <<>>)

Disclaimer == "Not financial advice. For informational purposes only."

\* variant: the rule is appended, the disclaimer is not
disclaimer_lines_rule_only == <<Line("rule", <<"---">>)>>

\* "---\n" and "*Not financial advice. For informational purposes only.*"
disclaimer_lines == <<Line("rule", <<"---">>), Line("disclaimer", <<"*", Disclaimer, "*">>)>>

no_ticker_message ==
    <<Line("no_ticker", <<"Please specify a stock ticker (e.g., AAPL, MSFT, GOOGL) in your query.">>)>>

\* the outcome of a stretch of code: the lines it appended and the exception
\* that left it ("none": it ran to its end)
Done(lines) == [raised |-> "none", lines |-> lines]
Raise(type) == [raised |-> type, lines |-> <<>>]

\* dict.get(key, default) rendered in an f-string
GetText(v, default) == IF v.t = "missing" THEN default ELSE PyStr(v)

\* dict.get(key, default).upper(): [ok, s]; None and numbers have no upper()
GetUpper(v, default) ==
    CASE v.t = "missing" -> [ok |-> TRUE, s |-> UpperText(default)]
      [] v.t = "str" -> [ok |-> TRUE, s |-> UpperText(v.s)]
      [] OTHER -> [ok |-> FALSE, s |-> ""]

\* the market-cap lines: [raised, lines]
market_cap_lines(cap) ==
    IF ~Truthy(cap) THEN Done(<<>>)
    ELSE IF cap.t # "num" THEN Raise("TypeError")
    ELSE Done(<<Line("market_cap", <<"**Market Cap:** ", market_cap_text(cap.n)>>)>>)

\* analyze_stock_query, the ticker-details block
details_section(p) ==
    IF p.results.t = "dict"
    THEN LET result == p.results
             market == GetUpper(result.market, "N/A")
             currency == GetUpper(result.currency_name, "USD")
             cap == market_cap_lines(result.market_cap)
         IN  IF ~market.ok \/ ~currency.ok THEN Raise("AttributeError")
             ELSE IF cap.raised # "none" THEN cap
             ELSE Done(<<Line("company", <<"**Company:** ", GetText(result.name, "N/A")>>),
                         Line("market", <<"**Market:** ", market.s>>),
                         Line("type", <<"**Type:** ", GetText(result.type, "N/A")>>),
                         Line("currency", <<"**Currency:** ", currency.s>>)>>
                       \o cap.lines \o <<Blank>>)
    ELSE IF Truthy(p.error)
    THEN Done(<<Line("warn_details", <<"Could not fetch ticker details: ", PyStr(p.error)>>), Blank>>)
    ELSE Done(<<>>)

\* the guard of the daily-change computation
change_guard(open_price, close_price) == Truthy(open_price) /\ Truthy(close_price)

\* the daily-change block: float() raises ValueError, which the block catches;
\* a zero divisor raises ZeroDivisionError, which it does not
daily_change(open_price, close_price) ==
    IF ~change_guard(open_price, close_price) THEN Done(<<>>)
    ELSE IF ~ToNumber(close_price).ok \/ ~ToNumber(open_price).ok THEN Done(<<>>)
    ELSE LET o == ToNumber(open_price).n
             change == ToNumber(close_price).n - o
         IN  IF o = 0 THEN Raise("ZeroDivisionError")
             ELSE LET pct == (IF (change < 0) # (o < 0) THEN -1 ELSE 1) * RoundDiv(Abs(change) * 10000, Abs(o))
                  IN  Done(<<Line("change", <<"**Daily Change:** ", Signed2(change), " (", Signed2(pct), "%)">>),
                             Blank>>)

\* variant: the previous-close block asks for more than one bar
price_section_two_bars(p) ==
    IF p.results.t = "list" /\ Len(p.results.items) > 1
    THEN Done(<<Line("price_head", <<"**Previous Close Data:**">>), Blank>>)
    ELSE IF Truthy(p.error)
    THEN Done(<<Line("warn_price", <<"Could not fetch price data: ", PyStr(p.error)>>), Blank>>)
    ELSE Done(<<>>)

\* analyze_stock_query, the previous-close block
price_section(p) ==
    IF p.results.t = "list" /\ Len(p.results.items) > 0
    THEN LET result == p.results.items[1]
             change == daily_change(result.o, result.c)
         IN  IF change.raised # "none" THEN change
             ELSE Done(<<Line("price_head", <<"**Previous Close Data:**">>),
                         Line("close", <<"- **Close:** ", format_price(result.c)>>),
                         Line("open", <<"- **Open:** ", format_price(result.o)>>),
                         Line("high", <<"- **High:** ", format_price(result.h)>>),
                         Line("low", <<"- **Low:** ", format_price(result.l)>>),
                         Line("volume", <<"- **Volume:** ", format_volume(result.v), " shares">>),
                         Blank>> \o change.lines)
    ELSE IF Truthy(p.error)
    THEN Done(<<Line("warn_price", <<"Could not fetch price data: ", PyStr(p.error)>>), Blank>>)
    ELSE Done(<<>>)

\* datetime.fromisoformat(published.replace('Z', '+00:00')).strftime('%Y-%m-%d %H:%M');
\* any exception leaves the raw value
format_date(published) ==
    CASE published.t = "missing" -> "Unknown date"
      [] published.t = "str" /\ published.s = "2024-01-15T10:30:00Z" -> "2024-01-15 10:30"
      [] OTHER -> PyStr(published)

\* the number of articles a news section renders
NewsCap == 3

\* variant: the article list is not sliced
FirstArticles_unsliced(items) == items

\* news['results'][:3]
FirstArticles(items) == SubSeq(items, 1, IF Len(items) < NewsCap THEN Len(items) ELSE NewsCap)

article_line(a) ==
    Line("article", <<"- [", GetText(a.title, "No title"), "](", GetText(a.article_url, "#"), ") - ",
                      format_date(a.published_utc)>>)

\* analyze_stock_query, the news block
news_section(p) ==
    IF p.results.t = "list" /\ Len(p.results.items) > 0
    THEN LET shown == FirstArticles(p.results.items)
         IN  Done(<<Line("news_head", <<"**Recent News:**">>)>>
                    \o [i \in 1..Len(shown) |-> article_line(shown[i])]
                    \o <<Blank>>)
    ELSE IF Truthy(p.error)
    THEN Done(<<Line("warn_news", <<"Could not fetch news: ", PyStr(p.error)>>), Blank>>)
    ELSE Done(<<>>)

\* a price value printed by an f-string without a format spec
RawText(v, default) ==
    CASE v.t = "missing" -> default
      [] v.t = "num" -> RawNumber(v.n)
      [] OTHER -> PyStr(v)

\* simple_demo.py analyze_query, the ticker-details block
simple_details_section(p) ==
    IF p.results.t = "dict"
    THEN LET result == p.results
         IN  Done(<<Line("company", <<"**Company:** ", GetText(result.name, "N/A")>>),
                    Line("market", <<"**Market:** ", GetText(result.market, "N/A")>>),
                    Line("type", <<"**Type:** ", GetText(result.type, "N/A")>>),
                    Line("currency", <<"**Currency:** ", GetText(result.currency_name, "N/A")>>),
                    Blank>>)
    ELSE IF Truthy(p.error)
    THEN Done(<<Line("warn_details", <<"Could not fetch ticker details: ", PyStr(p.error)>>), Blank>>)
    ELSE Done(<<>>)

\* simple_demo.py analyze_query, the quote block: f"{volume:,}" raises
\* ValueError for the 'N/A' default and for text, TypeError for None
simple_quote_section(p) ==
    IF p.results.t = "list" /\ Len(p.results.items) > 0
    THEN LET result == p.results.items[1]
         IN  IF result.v.t = "null" THEN Raise("TypeError")
             ELSE IF result.v.t # "num" THEN Raise("ValueError")
             ELSE Done(<<Line("price_head", <<"**Previous Close:**">>),
                         Line("close", <<"- Close Price: $", RawText(result.c, "N/A")>>),
                         Line("high", <<"- High: $", RawText(result.h, "N/A")>>),
                         Line("low", <<"- Low: $", RawText(result.l, "N/A")>>),
                         Line("volume", <<"- Volume: ", Grouped(result.v.n), " shares">>),
                         Blank>>)
    ELSE IF Truthy(p.error)
    THEN Done(<<Line("warn_price", <<"Could not fetch latest quote: ", PyStr(p.error)>>), Blank>>)
    ELSE Done(<<>>)

simple_article_line(a) ==
    Line("article", <<"- [", GetText(a.title, "No title"), "](", GetText(a.article_url, "#"), ") - ",
                      GetText(a.published_utc, "Unknown date")>>)

\* simple_demo.py analyze_query, the news block
simple_news_section(p) ==
    IF p.results.t = "list" /\ Len(p.results.items) > 0
    THEN LET shown == FirstArticles(p.results.items)
         IN  Done(<<Line("news_head", <<"**Recent News:**">>)>>
                    \o [i \in 1..Len(shown) |-> simple_article_line(shown[i])]
                    \o <<Blank>>)
    ELSE IF Truthy(p.error)
    THEN Done(<<Line("warn_news", <<"Could not fetch news: ", PyStr(p.error)>>), Blank>>)
    ELSE Done(<<>>)

\* the block of the running entry point's analysis function for a data kind
Section(e, kind, p) ==
    CASE e = "home" /\ kind = "details" -> details_section(p)
      [] e = "home" /\ kind = "price" -> price_section(p)
      [] e = "home" /\ kind = "news" -> news_section(p)
      [] e = "simple" /\ kind = "details" -> simple_details_section(p)
      [] e = "simple" /\ kind = "price" -> simple_quote_section(p)
      [] e = "simple" /\ kind = "news" -> simple_news_section(p)

\* f"## Analysis for {ticker}\n\n"
header_lines(t) == <<Line("header", <<"## Analysis for ", t>>), Blank>>

-----------------------------------------------------------------------------
(* The finance guardrail and the narrative step (Home.py) *)

Bool(b) == [t |-> "bool", b |-> b]

\* what chat.completions.create does for the guardrail: raises, or returns a
\* content that json.loads rejects, decodes to a non-object, or decodes to an
\* object with these two keys
Reply(raises, json, fin, reasoning) ==
    [raises |-> raises, json |-> json, is_about_finance |-> fin, reasoning |-> reasoning]

GuardrailReplies ==
    {Reply(TRUE, "none", Missing, Missing),
     Reply(FALSE, "invalid", Missing, Missing),
     Reply(FALSE, "array", Missing, Missing),
     Reply(FALSE, "object", Missing, Missing),
     Reply(FALSE, "object", Bool(TRUE), Missing),
     Reply(FALSE, "object", Null, Txt("unsure")),
     Reply(FALSE, "object", Txt("maybe"), Txt("unsure")),
     Reply(FALSE, "object", Txt("yes"), Txt("about stocks")),
     Reply(FALSE, "object", Bool(TRUE), Txt("about stocks")),
     Reply(FALSE, "object", Bool(FALSE), Txt("about cooking"))}

\* pydantic's validation of a bool field: [ok, b].  A bool is kept, the texts
\* and numbers pydantic reads as booleans are converted, the rest is refused
bool_field(v) ==
    CASE v.t = "bool" -> [ok |-> TRUE, b |-> v.b]
      [] v.t = "str" /\ v.s \in {"yes", "true", "1", "on", "y", "t"} -> [ok |-> TRUE, b |-> TRUE]
      [] v.t = "str" /\ v.s \in {"no", "false", "0", "off", "n", "f"} -> [ok |-> TRUE, b |-> FALSE]
      [] v.t = "num" /\ v.n \in {0, 1} -> [ok |-> TRUE, b |-> (v.n = 1)]
      [] OTHER -> [ok |-> FALSE, b |-> FALSE]

\* pydantic's validation of a str field
str_field(v) == [ok |-> v.t = "str", s |-> IF v.t = "str" THEN v.s ELSE ""]

\* FinanceOutput(**result) accepts the decoded content
Validates(r) ==
    /\ ~r.raises
    /\ r.json = "object"
    /\ bool_field(r.is_about_finance).ok
    /\ str_field(r.reasoning).ok

\* str(e) of the exception the try block of validate_finance_query catches
validation_error_text(r) ==
    IF r.raises THEN "Connection error."
    ELSE IF r.json = "invalid" THEN "Expecting value: line 1 column 1 (char 0)"
    ELSE IF r.json = "array" THEN "argument after ** must be a mapping, not list"
    ELSE "validation error for FinanceOutput"

FinanceOutput(is_about_finance, reasoning) ==
    [raised |-> "none", is_about_finance |-> is_about_finance, reasoning |-> reasoning]

\* variant: the except clause lets the query through
validate_finance_query_fail_open(r) ==
    IF Validates(r)
    THEN FinanceOutput(bool_field(r.is_about_finance).b, str_field(r.reasoning).s)
    ELSE FinanceOutput(TRUE, "Error in validation: " \o validation_error_text(r))

\* FinancialAnalysisAgent.validate_finance_query
validate_finance_query(r) ==
    IF Validates(r)
    THEN FinanceOutput(bool_field(r.is_about_finance).b, str_field(r.reasoning).s)
    ELSE FinanceOutput(FALSE, "Error in validation: " \o validation_error_text(r))

NoValidation == [raised |-> "none", is_about_finance |-> FALSE, reasoning |-> "<unset>"]

\* what chat.completions.create does for the narrative: raises or returns text
NarrativeReplies ==
    {[raises |-> TRUE, text |-> "Request timed out."],
     [raises |-> FALSE, text |-> "The stock looks stable. Not financial advice. For informational purposes only."]}

\* variant: the except clause returns the bare text of the exception
analyze_with_ai_unmarked(r) == <<r.text>>

\* FinancialAnalysisAgent.analyze_with_ai
analyze_with_ai(r) ==
    IF r.raises THEN <<"Error generating AI analysis: ", r.text>> ELSE <<r.text>>

\* f"{polygon_data}\n\n## AI Analysis\n\n{ai_analysis}"
combine(data, ai) ==
    data \o <<Blank, Line("ai_head", <<"## AI Analysis">>), Blank, Line("ai_analysis", ai)>>

\* the message shown for a query the guardrail rejects
not_finance_message(v) ==
    <<Line("not_finance", <<"This query doesn't appear to be finance-related. ", v.reasoning>>),
      Blank,
      Line("please_ask", <<"Please ask questions about stocks, market data, financial analysis, or related topics.">>)>>

\* str(e) of the exceptions the handlers catch
exception_text(type) ==
    CASE type = "ZeroDivisionError" -> "float division by zero"
      [] type = "AttributeError" -> "'NoneType' object has no attribute 'upper'"
      [] type = "TypeError" -> "unsupported format string passed to NoneType.__format__"
      [] type = "ValueError" -> "Cannot specify ',' with 's'."
      [] type = "OSError" -> "[Errno 28] No space left on device"
      [] OTHER -> type

\* f"Error: {str(e)}"
error_message(type) == <<Line("error", <<"Error: ", exception_text(type)>>)>>

Message(role, content) == [role |-> role, content |-> content]

-----------------------------------------------------------------------------
(* Saving a report *)

\* datetime.now().strftime("%Y%m%d_%H%M%S") of the clock readings considered
Clock == {"20240115_103000", "20240115_103001"}

\* datetime.now().strftime('%Y-%m-%d %H:%M:%S') of the same readings
generated_on(now) ==
    CASE now = "20240115_103000" -> "2024-01-15 10:30:00"
      [] now = "20240115_103001" -> "2024-01-15 10:30:01"

\* utils/polygon_mcp_util.py save_analysis_report: [path, content]
save_analysis_report(content, t, now) ==
    [path |-> "reports/" \o t \o "_analysis_" \o now \o ".md",
     content |-> <<Line("title", <<"# ", t, " Stock Analysis Report">>), Blank,
                   Line("generated", <<"Generated on: ", generated_on(now)>>), Blank>> \o content]

\* simple_demo.py save_analysis_report
simple_save_analysis_report(content, t, now) ==
    [path |-> "reports/analysis_" \o t \o "_" \o now \o ".md", content |-> content]

SaveReport(e, content, t, now) ==
    IF e = "home" THEN save_analysis_report(content, t, now)
    ELSE simple_save_analysis_report(content, t, now)

\* variant: the file is opened for appending
WriteFile_append(files, f) ==
    {g \in files : g.path # f.path}
      \cup {[path |-> f.path,
              content |-> IF \E g \in files : g.path = f.path
                          THEN (CHOOSE g \in files : g.path = f.path).content \o f.content
                          ELSE f.content]}

\* open(path, 'w') and write: the file at the path holds the new content
WriteFile(files, f) == {g \in files : g.path # f.path} \cup {f}

-----------------------------------------------------------------------------
(* The chat handlers *)

q_none == JoinWords(<<w_a, w_42>>)
q_name == JoinWords(<<w_apple>>)
q_symbol == JoinWords(<<w_AAPL, w_stock>>)

\* the queries the handler is run on
PipelineQueries == {q_none, q_name, q_symbol}

NotCalled == Http(-1, "", FALSE, NoResults)

NotAsked == [raises |-> FALSE, text |-> "<unset>"]

\* before any external call of the handler
NothingGot ==
    [classify |-> Reply(FALSE, "none", Missing, Missing),
     details |-> NotCalled, price |-> NotCalled, aggregates |-> NotCalled, news |-> NotCalled,
     narrate |-> NotAsked]

NotFetched == [ends |-> "not called", error |-> Missing, results |-> NoResults]

NothingFetched ==
    [details |-> NotFetched, price |-> NotFetched, aggregates |-> NotFetched, news |-> NotFetched]

Init ==
    /\ entry \in {"home", "simple"}
    /\ pc = "idle"
    /\ query = <<>>
    /\ messages = <<>>
    /\ validation = NoValidation
    /\ ticker = None
    /\ response = <<>>
    /\ calls = <<>>
    /\ got = NothingGot
    /\ fetched = NothingFetched
    /\ raised = "none"
    /\ polygon_data = <<>>
    /\ full_response = <<>>
    /\ saved = {}

\* the except clause of the handler: the error is shown and recorded
Fail(type, msgs) ==
    /\ raised' = type
    /\ messages' = Append(msgs, Message("assistant", error_message(type)))
    /\ pc' = "done"

\* variant: the handler goes to the analysis without asking the guardrail
Submit_unguarded(q) ==
    /\ pc = "idle"
    /\ query' = q
    /\ messages' = Append(messages, Message("user", <<Line("query", <<Str(q)>>)>>))
    /\ pc' = "resolve"
    /\ UNCHANGED <<entry, validation, ticker, response, calls, got, fetched, raised, polygon_data,
                   full_response, saved>>

\* st.chat_input returns a prompt: the user message is recorded; Home.py asks
\* the guardrail first, simple_demo.py goes straight to the analysis
Submit(q) ==
    /\ pc = "idle"
    /\ query' = q
    /\ messages' = Append(messages, Message("user", <<Line("query", <<Str(q)>>)>>))
    /\ pc' = IF entry = "home" THEN "classify" ELSE "resolve"
    /\ UNCHANGED <<entry, validation, ticker, response, calls, got, fetched, raised, polygon_data,
                   full_response, saved>>

\* Home.py: the guardrail call returns r; a rejected query ends the handler
Classify(r) ==
    /\ pc = "classify"
    /\ calls' = Append(calls, "classify")
    /\ got' = [got EXCEPT !.classify = r]
    /\ LET v == validate_finance_query(r)
       IN  /\ validation' = v
           /\ IF v.raised # "none"
              THEN Fail(v.raised, messages)
              ELSE IF ~v.is_about_finance
              THEN /\ messages' = Append(messages, Message("assistant", not_finance_message(v)))
                   /\ pc' = "done"
                   /\ UNCHANGED raised
              ELSE /\ pc' = "resolve"
                   /\ UNCHANGED <<messages, raised>>
    /\ UNCHANGED <<entry, query, ticker, response, fetched, polygon_data, full_response, saved>>

\* the analysis function starts: the ticker is resolved; without one the
\* function returns the guidance message, else the header opens the report
Resolve ==
    /\ pc = "resolve"
    /\ LET t == ExtractTicker(entry, query)
       IN  /\ ticker' = t
           /\ IF t = None
              THEN /\ polygon_data' = no_ticker_message
                   /\ pc' = "analysed"
                   /\ UNCHANGED response
              ELSE /\ response' = header_lines(t)
                   /\ pc' = "details"
                   /\ UNCHANGED polygon_data
    /\ UNCHANGED <<entry, query, messages, validation, calls, got, fetched, raised, full_response, saved>>

\* a gateway call of the analysis function is made, the server doing h: the
\* method waits without end, or it returns and its block is appended to the
\* report, or an exception leaves the function and reaches the handler.
\* After the news block the disclaimer closes the report.
Fetch(kind, h) ==
    /\ pc = kind
    /\ calls' = Append(calls, kind)
    /\ got' = [got EXCEPT ![kind] = h]
    /\ LET p == ApiGet(entry, h)
           s == Section(entry, kind, p)
       IN  /\ fetched' = [fetched EXCEPT ![kind] = p]
           /\ IF p.ends = "blocks"
              THEN /\ pc' = "hung"
                   /\ UNCHANGED <<raised, messages, response, polygon_data>>
              ELSE IF p.ends # "returns"
              THEN /\ Fail(p.ends, messages)
                   /\ UNCHANGED <<response, polygon_data>>
              ELSE IF s.raised # "none"
              THEN /\ Fail(s.raised, messages)
                   /\ UNCHANGED <<response, polygon_data>>
              ELSE /\ UNCHANGED <<raised, messages>>
                   /\ IF kind = "news"
                      THEN /\ response' = response \o s.lines \o disclaimer_lines
                           /\ polygon_data' = response'
                           /\ pc' = "analysed"
                      ELSE /\ response' = response \o s.lines
                           /\ pc' = IF kind = "details" THEN "price" ELSE "news"
                           /\ UNCHANGED polygon_data
    /\ UNCHANGED <<entry, query, validation, ticker, full_response, saved>>

FetchDetails == \E h \in HttpResponses("details") : Fetch("details", h)
FetchPrice == \E h \in HttpResponses("price") : Fetch("price", h)
FetchNews == \E h \in HttpResponses("news") : Fetch("news", h)

\* Home.py: the narrative call returns r; the combined response is shown and
\* recorded
Narrate(r) ==
    /\ pc = "analysed"
    /\ entry = "home"
    /\ calls' = Append(calls, "narrate")
    /\ got' = [got EXCEPT !.narrate = r]
    /\ full_response' = combine(polygon_data, analyze_with_ai(r))
    /\ messages' = Append(messages, Message("assistant", full_response'))
    /\ pc' = "offer"
    /\ UNCHANGED <<entry, query, validation, ticker, response, fetched, raised, polygon_data, saved>>

\* simple_demo.py: the response of analyze_query is shown and recorded
Deliver ==
    /\ pc = "analysed"
    /\ entry = "simple"
    /\ full_response' = polygon_data
    /\ messages' = Append(messages, Message("assistant", full_response'))
    /\ pc' = "offer"
    /\ UNCHANGED <<entry, query, validation, ticker, response, calls, got, fetched, raised, polygon_data,
                   saved>>

\* the save button: offered when extract_ticker(prompt) gives a ticker t; when
\* it is pressed the report is written, and a failing write reaches the
\* handler's except clause
Offer(t, pressed, now, io_ok) ==
    /\ pc = "offer"
    /\ IF t = None \/ ~pressed
       THEN /\ pc' = "done"
            /\ UNCHANGED <<messages, raised, saved>>
       ELSE IF io_ok
       THEN /\ saved' = WriteFile(saved, SaveReport(entry, full_response, t, now))
            /\ pc' = "done"
            /\ UNCHANGED <<messages, raised>>
       ELSE /\ Fail("OSError", messages)
            /\ UNCHANGED saved
    /\ UNCHANGED <<entry, query, validation, ticker, response, calls, got, fetched, polygon_data,
                   full_response>>

\* extract_ticker is applied to the same prompt a second time; it reads
\* nothing but the prompt, so it yields the ticker Resolve stored
OfferSave ==
    /\ pc = "offer"
    /\ LET t == ticker
       IN  \E pressed \in BOOLEAN, now \in Clock, io_ok \in BOOLEAN : Offer(t, pressed, now, io_ok)

Next ==
    \/ \E q \in PipelineQueries : Submit(q)
    \/ \E r \in GuardrailReplies : Classify(r)
    \/ Resolve
    \/ FetchDetails
    \/ FetchPrice
    \/ FetchNews
    \/ \E r \in NarrativeReplies : Narrate(r)
    \/ Deliver
    \/ OfferSave

Spec == Init /\ [][Next]_vars

-----------------------------------------------------------------------------
(* Ticker resolution on its own: extract_ticker applied to every query of   *)
(* the corpus, by the resolver of either entry point                        *)

TickerInit ==
    /\ entry \in {"home", "simple"}
    /\ pc = "ticker_idle"
    /\ query \in Corpus
    /\ messages = <<>>
    /\ validation = NoValidation
    /\ ticker = None
    /\ response = <<>>
    /\ calls = <<>>
    /\ got = NothingGot
    /\ fetched = NothingFetched
    /\ raised = "none"
    /\ polygon_data = <<>>
    /\ full_response = <<>>
    /\ saved = {}

TickerResolve ==
    /\ pc = "ticker_idle"
    /\ ticker' = ExtractTicker(entry, query)
    /\ pc' = "ticker_done"
    /\ UNCHANGED <<entry, query, messages, validation, response, calls, got, fetched, raised,
                   polygon_data, full_response, saved>>

TickerNext == TickerResolve

SpecTicker == TickerInit /\ [][TickerNext]_vars

-----------------------------------------------------------------------------
(* The gateway on its own: each read operation of PolygonAPI called once,   *)
(* whatever the server does                                                *)

GatewayMethods == {"details", "price", "aggregates", "news"}

GatewayInit ==
    /\ entry \in {"home", "simple"}
    /\ pc = "gateway_idle"
    /\ query = <<>>
    /\ messages = <<>>
    /\ validation = NoValidation
    /\ ticker = "AAPL"
    /\ response = <<>>
    /\ calls = <<>>
    /\ got = NothingGot
    /\ fetched = NothingFetched
    /\ raised = "none"
    /\ polygon_data = <<>>
    /\ full_response = <<>>
    /\ saved = {}

\* polygon_api.get_*(ticker): the method returns a mapping, lets an exception
\* reach the caller, or never returns
GatewayCall(method, h) ==
    /\ pc = "gateway_idle"
    /\ calls' = <<method>>
    /\ got' = [got EXCEPT ![method] = h]
    /\ LET p == ApiGet(entry, h)
       IN  /\ fetched' = [fetched EXCEPT ![method] = p]
           /\ raised' = IF p.ends \in {"returns", "blocks"} THEN "none" ELSE p.ends
           /\ pc' = IF p.ends = "blocks" THEN "hung" ELSE "gateway_done"
    /\ UNCHANGED <<entry, query, messages, validation, ticker, response, polygon_data,
                   full_response, saved>>

GatewayNext == \E method \in GatewayMethods : \E h \in HttpResponses(method) : GatewayCall(method, h)

SpecGateway == GatewayInit /\ [][GatewayNext]_vars

-----------------------------------------------------------------------------
(* Saving on its own: save_analysis_report called a few times in a row, by   *)
(* either entry point, with any content, ticker and clock reading            *)

\* datetime.now(): a second of the clock and the microseconds within it
Readings == {[second |-> s, microsecond |-> u] : s \in Clock, u \in {0, 500000}}

\* strftime("%Y%m%d_%H%M%S") of a reading: the microseconds are dropped
strftime(reading) == reading.second

SaveInit ==
    /\ entry \in {"home", "simple"}
    /\ pc = "save_idle"
    /\ query = <<>>
    /\ messages = <<>>
    /\ validation = NoValidation
    /\ ticker = None
    /\ response = <<>>
    /\ calls = <<>>
    /\ got = NothingGot
    /\ fetched = NothingFetched
    /\ raised = "none"
    /\ polygon_data = <<>>
    /\ full_response = <<>>
    /\ saved = {}

\* save_analysis_report(content, t) at the clock reading: the file is opened
\* for writing and written, and its path is returned
SaveCall(content, t, reading) ==
    /\ pc \in {"save_idle", "save_returned"}
    /\ Len(calls) < MaxSaves
    /\ LET f == SaveReport(entry, content, t, strftime(reading))
       IN  /\ saved' = WriteFile(saved, f)
           /\ calls' = Append(calls, [ticker |-> t, reading |-> reading, content |-> content,
                                      returned |-> f.path])
    /\ ticker' = t
    /\ full_response' = content
    /\ pc' = "save_returned"
    /\ UNCHANGED <<entry, query, messages, validation, response, got, fetched, raised, polygon_data>>

\* two texts passed as content, two tickers, every reading
SaveNext ==
    \E content \in {header_lines("AAPL") \o disclaimer_lines, no_ticker_message},
       t \in {"AAPL", "MSFT"},
       reading \in Readings : SaveCall(content, t, reading)

SpecSave == SaveInit /\ [][SaveNext]_vars

-----------------------------------------------------------------------------
(* Scaled numbers: the details and previous-close blocks of                  *)
(* analyze_stock_query on payloads whose market cap and volume lie just     *)
(* under the next threshold of their scale                                  *)

\* Home.py has accepted the query and analyze_stock_query has resolved AAPL
ScaleInit ==
    /\ entry = "home"
    /\ pc = "details"
    /\ query = q_symbol
    /\ messages = <<Message("user", <<Line("query", <<Str(q_symbol)>>)>>)>>
    /\ validation = FinanceOutput(TRUE, "about stocks")
    /\ ticker = "AAPL"
    /\ response = header_lines("AAPL")
    /\ calls = <<"classify">>
    /\ got = [NothingGot EXCEPT !.classify = Reply(FALSE, "object", Bool(TRUE), Txt("about stocks"))]
    /\ fetched = NothingFetched
    /\ raised = "none"
    /\ polygon_data = <<>>
    /\ full_response = <<>>
    /\ saved = {}

\* the details call answers a market cap around 999.95 million, the
\* previous-close call a volume around 999.95 thousand
ScaleNext ==
    \/ \E cap \in 999949995..999950005 :
          Fetch("details", Http(200, "", TRUE,
                                DetailsDict(Txt("Apple Inc."), Txt("stocks"), Txt("CS"), Txt("usd"), Num(cap))))
    \/ \E v \in 999945..999955 :
          Fetch("price", Http(200, "", TRUE,
                              [t |-> "list", items |-> <<Bar(Num(10000), Num(11000), Num(11200), Num(9900), Num(v))>>]))

SpecScale == ScaleInit /\ [][ScaleNext]_vars

-----------------------------------------------------------------------------
(* Properties *)

GatewayKinds == {"details", "price", "news"}

\* the external call k has returned
Called(k) == \E i \in 1..Len(calls) : calls[i] = k

\* an analysis function returned a report for a resolved ticker
ReportReturned == ticker # None /\ polygon_data # <<>>

LinesOfKind(report, k) == {i \in 1..Len(report) : report[i].k = k}

SectionHead(kind) ==
    CASE kind = "details" -> "company"
      [] kind = "price" -> "price_head"
      [] kind = "news" -> "news_head"

HasSection(report, kind) == LinesOfKind(report, SectionHead(kind)) # {}

\* the last fragment of the last line of a text
LastFragment(report) ==
    LET last == report[Len(report)].t
    IN  IF last = <<>> THEN "" ELSE last[Len(last)]

----
(* C1 *)

----
(* C2 *)

\* the guardrail call failed or its content is not accepted as a
\* {is_about_finance, reasoning} object: it raised, the content is no JSON or
\* no JSON object, a key is missing or null, or is_about_finance is neither a
\* boolean nor a text or number that reads as one
C2_Malformed(r) ==
    \/ r.raises
    \/ r.json # "object"
    \/ r.reasoning.t # "str"
    \/ r.is_about_finance.t \notin {"bool", "str", "num"}
    \/ r.is_about_finance.t = "str" /\ r.is_about_finance.s \notin
          {"yes", "true", "1", "on", "y", "t", "no", "false", "0", "off", "n", "f"}
    \/ r.is_about_finance.t = "num" /\ r.is_about_finance.n \notin {0, 1}

\* C2: when the guardrail call raises or returns malformed output,
\* validate_finance_query returns is_about_finance = FALSE with a reasoning
\* that describes the failure and does not raise; the handler then answers
\* with the rejection message and issues no gateway call and no narrative
\* call.
C2_ClassifierFailsClosed ==
    (entry = "home" /\ Called("classify") /\ C2_Malformed(got.classify)) =>
        /\ validation.raised = "none"
        /\ validation.is_about_finance = FALSE
        /\ validation.reasoning = "Error in validation: " \o validation_error_text(got.classify)
        /\ raised = "none"
        /\ pc = "done"
        /\ calls = <<"classify">>
        /\ Len(messages) = 2
        /\ messages[2] = Message("assistant", not_finance_message(validation))
        /\ polygon_data = <<>>
        /\ full_response = <<>>

C2_Witness ==
    /\ entry = "home"
    /\ pc = "done"
    /\ got.classify.json = "invalid"
    /\ ~validation.is_about_finance

----
(* C3 *)

\* the dictionary of the running entry point and its entries found in q
DictOf(e) == IF e = "home" THEN company_mappings ELSE company_tickers
HitsOf(e, q) == IF e = "home" THEN DictHits(q) ELSE SimpleDictHits(q)

\* C3, as stated: a query that contains a company name resolves to that
\* company's ticker, whatever else it contains.
C3_EveryNamedCompanyWins ==
    pc = "ticker_done" =>
        \A k \in HitsOf(entry, query) : ticker = DictOf(entry)[k][2]

\* C3, amended: a query that contains a company name resolves to the ticker
\* of the first dictionary entry, in the dictionary's order, whose name it
\* contains; no pattern match in the query changes that.
C3_FirstNamedCompanyWins ==
    (pc = "ticker_done" /\ HitsOf(entry, query) # {}) =>
        \E k \in HitsOf(entry, query) :
            /\ \A j \in HitsOf(entry, query) : k <= j
            /\ ticker = DictOf(entry)[k][2]

\* a company name together with a pattern match that names another symbol
C3_Witness ==
    /\ pc = "ticker_done"
    /\ entry = "home"
    /\ DictHits(query) # {}
    /\ PatternLookup(query, 1) \notin {None, ticker}

----
(* C4 *)

\* the text t stands in q as written, in upper case, with 2..5 letters when
\* nothing marks it as a symbol
OccursUpperCase(q, t) ==
    \E i \in 1..Len(q), n \in 1..5 :
        /\ i + n - 1 <= Len(q)
        /\ \A j \in i..(i + n - 1) : IsUpper(q[j])
        /\ Str(SubSeq(q, i, i + n - 1)) = t

\* C4: without a dictionary hit, the ticker returned is a token the query
\* holds in upper case as written; a lower-case or mixed-case word is never
\* returned.
C4_PatternsMatchOriginalCase ==
    (pc = "ticker_done" /\ HitsOf(entry, query) = {} /\ ticker # None) =>
        OccursUpperCase(query, ticker)

----
(* C5 *)

\* C5: when no ticker is resolved the whole output is the guidance message:
\* no gateway call, no narrative call, nothing appended.
C5_NoTickerOnlyGuidance ==
    (polygon_data = no_ticker_message) =>
        /\ \A k \in GatewayKinds : ~Called(k)
        /\ ~Called("narrate")
        /\ pc \in {"offer", "done"} => full_response = no_ticker_message

----
(* C6 *)

\* C6: in a report of analyze_stock_query the section of a data kind is
\* present exactly when its gateway call returned non-empty results.
C6_SectionIffResults ==
    (entry = "home" /\ ReportReturned) =>
        \A kind \in GatewayKinds :
            HasSection(polygon_data, kind) <=> HasResults(got[kind])

C6_Witness ==
    /\ entry = "home"
    /\ ReportReturned
    /\ HasResults(got.details)
    /\ ~HasResults(got.price)
    /\ HasResults(got.news)

----
(* C7 *)

WarningKind(kind) ==
    CASE kind = "details" -> "warn_details"
      [] kind = "price" -> "warn_price"
      [] kind = "news" -> "warn_news"

WarningPrefix(kind) ==
    CASE kind = "details" -> "Could not fetch ticker details: "
      [] kind = "price" -> "Could not fetch price data: "
      [] kind = "news" -> "Could not fetch news: "

\* C7: when a gateway call has failed, analyze_stock_query still ends with a
\* report, whatever the other calls return: every failed call has exactly
\* one warning line that names its kind and carries its detail, every call
\* with non-empty results has its section, and the disclaimer comes last.
C7_FailureIsOneWarningAndNeverStops ==
    (/\ entry = "home"
     /\ ticker # None
     /\ pc \in {"analysed", "offer", "done"}
     /\ \E kind \in GatewayKinds : Called(kind) /\ Failed(got[kind])) =>
        /\ polygon_data # <<>>
        /\ polygon_data[Len(polygon_data)].k = "disclaimer"
        /\ \A kind \in GatewayKinds :
              /\ Called(kind)
              /\ HasResults(got[kind]) => HasSection(polygon_data, kind)
              /\ Failed(got[kind]) =>
                    /\ Cardinality(LinesOfKind(polygon_data, WarningKind(kind))) = 1
                    /\ \A i \in LinesOfKind(polygon_data, WarningKind(kind)) :
                          polygon_data[i].t = <<WarningPrefix(kind), api_get(got[kind]).error.s>>

----
(* C8 *)

\* C8, as stated: the last characters of every report returned for a
\* resolved ticker are the disclaimer text, with nothing after them.
C8_ReportEndsWithBareDisclaimer ==
    ReportReturned => LastFragment(polygon_data) = Disclaimer

\* C8, amended: every report returned for a resolved ticker ends with the
\* rule line and the line that holds the disclaimer text between a pair of
\* "*" marks, the closing mark being the last character; the response
\* Home.py shows continues after it with the narrative section.
C8_ReportEndsWithMarkedDisclaimer ==
    /\ ReportReturned =>
          /\ Len(polygon_data) >= 2
          /\ polygon_data[Len(polygon_data) - 1].t = <<"---">>
          /\ polygon_data[Len(polygon_data)].t =
                <<"*", "Not financial advice. For informational purposes only.", "*">>
    /\ (ReportReturned /\ entry = "home" /\ full_response # <<>>) =>
          /\ Len(full_response) = Len(polygon_data) + 4
          /\ SubSeq(full_response, 1, Len(polygon_data)) = polygon_data
          /\ full_response[Len(full_response)].k = "ai_analysis"
    /\ (ReportReturned /\ entry = "simple" /\ full_response # <<>>) =>
          full_response = polygon_data

C8_Witness ==
    /\ ReportReturned
    /\ entry = "home"
    /\ pc = "offer"
    /\ Failed(got.details)
    /\ HasResults(got.price)
    /\ Failed(got.news)

----
(* C9 *)

RenderedArticles(report) == SelectSeq(report, LAMBDA l : l.k = "article")

ArticleLineOf(e, a) == IF e = "home" THEN article_line(a) ELSE simple_article_line(a)

\* C9: the news section renders the first 3 articles of the gateway's list,
\* in the gateway's order, and never more than 3.
C9_NewsCappedAtFirstThree ==
    (ReportReturned /\ HasResults(got.news)) =>
        LET items == got.news.results.items
            n == IF Len(items) < 3 THEN Len(items) ELSE 3
        IN  /\ Len(RenderedArticles(polygon_data)) <= 3
            /\ RenderedArticles(polygon_data) = [i \in 1..n |-> ArticleLineOf(entry, items[i])]

C9_Witness ==
    /\ ReportReturned
    /\ HasResults(got.news)
    /\ Len(got.news.results.items) > 3
    /\ got.news.results.items[1] # got.news.results.items[2]

----
(* C10 *)

\* the open value is zero or missing: absent, null, the number 0 or the text "0"
OpenZeroOrMissing(o) ==
    \/ o.t \in {"missing", "null"}
    \/ o.t = "num" /\ o.n = 0
    \/ o.t = "str" /\ o.s = "0"

\* C10: when the open value of the price payload is zero or missing, no
\* daily-change line is emitted, nothing is divided by zero and the pipeline
\* does not raise.
C10_NoChangeLineWithoutOpen ==
    (entry = "home" /\ Called("price") /\ HasResults(got.price)
       /\ OpenZeroOrMissing(got.price.results.items[1].o)) =>
        /\ raised # "ZeroDivisionError"
        /\ LinesOfKind(response, "change") = {}

----
(* C11 *)

\* the text the volume rule gives for the share counts of the payloads
C11_RuleText(n) ==
    CASE n = 500 -> "500"
      [] n = 1500 -> "1.5K"
      [] n = 2500000 -> "2.5M"

\* C11: every share count a report shows, from either entry point, follows
\* the volume rule: millions with one decimal and 'M', thousands with one
\* decimal and 'K', smaller counts as a plain integer.
C11_SingleVolumeRule ==
    \A i \in LinesOfKind(response, "volume") :
        LET v == got.price.results.items[1].v
        IN  v.t = "num" => response[i].t[2] = C11_RuleText(v.n)

----
(* C12 *)

\* the text the market-cap rule gives for the values of the payloads
C12_RuleText(n) ==
    CASE n = 2000000000 -> "$2.0B"
      [] n = 900000000 -> "$900.0M"
      [] n = 500000 -> "$500,000"
      [] n = 0 -> "$0"

\* the details block of analyze_stock_query has been appended
C12_DetailsRendered ==
    entry = "home" /\ Called("details") /\ HasResults(got.details) /\ raised = "none"

\* the market-cap lines of the report are exactly these texts
C12_CapLines(texts) ==
    /\ Cardinality(LinesOfKind(response, "market_cap")) = Len(texts)
    /\ \A i \in LinesOfKind(response, "market_cap") :
          response[i].t = <<"**Market Cap:** ", texts[1]>>

\* C12, as stated: whenever the details payload carries a market-cap value
\* the report has one market-cap line, scaled to billions, millions or shown
\* as a plain integer.
C12_CapLineForEveryValue ==
    C12_DetailsRendered =>
        LET cap == got.details.results.market_cap
        IN  IF cap.t = "num" THEN C12_CapLines(<<C12_RuleText(cap.n)>>) ELSE C12_CapLines(<<>>)

\* C12, amended: whenever the details payload carries a non-zero market-cap
\* number the report has one market-cap line, scaled to billions, millions
\* or shown as a plain integer; a value of 0, like an absent value, gives no
\* market-cap line.
C12_CapLineForEveryNonZeroValue ==
    C12_DetailsRendered =>
        LET cap == got.details.results.market_cap
        IN  IF cap.t = "num" /\ cap.n # 0
            THEN C12_CapLines(<<C12_RuleText(cap.n)>>)
            ELSE C12_CapLines(<<>>)

C12_Witness ==
    /\ C12_DetailsRendered
    /\ got.details.results.market_cap = Num(900000000)
    /\ pc = "analysed"

----
(* C13 *)

\* C13: the analysis function of either entry point never raises, whatever
\* the gateway calls return: the only exception a handler can meet is the one
\* of writing a report file.
C13_AnalysisNeverRaises == raised \in {"none", "OSError"}

----
(* C14 *)

\* C14: a read operation of PolygonAPI that ends never lets an exception
\* reach its caller: after a failed connection, a timeout, a non-200 status
\* or an undecodable body it returns a mapping whose 'error' is a non-empty
\* text, and after a 200 answer with a decodable body it returns the decoded
\* payload as it is.
C14_GatewayReturnsFailureValues ==
    (pc \in {"gateway_done", "hung"}) =>
        LET method == calls[1]
            h == got[method]
            p == fetched[method]
        IN  /\ raised = "none"
            /\ pc = "gateway_done" =>
                  /\ p.ends = "returns"
                  /\ IF h.status = 200 /\ h.decodable
                     THEN p.error = Missing /\ p.results = h.results
                     ELSE /\ p.error.t = "str"
                          /\ p.error.s # ""
                          /\ p.results = NoResults

C14_Witness ==
    /\ pc = "gateway_done"
    /\ entry = "home"
    /\ calls = <<"aggregates">>
    /\ got.aggregates.status = 200
    /\ ~got.aggregates.decodable
    /\ fetched.aggregates.error.t = "str"

----
(* C15 *)

\* C15: when the narrative call fails, analyze_with_ai returns a marked error
\* text instead of raising, and the response shown and recorded is the whole
\* report of analyze_stock_query, unchanged, followed by the narrative
\* heading and that error text.
C15_NarrativeFailureKeepsReport ==
    (entry = "home" /\ Called("narrate") /\ got.narrate.raises) =>
        /\ raised \in {"none", "OSError"}
        /\ Len(full_response) = Len(polygon_data) + 4
        /\ SubSeq(full_response, 1, Len(polygon_data)) = polygon_data
        /\ full_response[Len(polygon_data) + 2].t = <<"## AI Analysis">>
        /\ full_response[Len(full_response)].t =
              <<"Error generating AI analysis: ", got.narrate.text>>
        /\ \E i \in 1..Len(messages) : messages[i] = Message("assistant", full_response)

C15_Witness ==
    /\ entry = "home"
    /\ pc = "offer"
    /\ got.narrate.raises
    /\ ReportReturned
    /\ HasResults(got.details)
    /\ HasResults(got.price)
    /\ HasResults(got.news)

----
(* C17 *)

\* C17: a report file written by save_analysis_report, in either entry
\* point, lies under reports/, is named {ticker}_analysis_{timestamp}.md and
\* holds exactly the content that was passed.
C17_SavedFileNamedAndHoldsContent ==
    \A f \in saved :
        /\ \E now \in Clock : f.path = "reports/" \o ticker \o "_analysis_" \o now \o ".md"
        /\ f.content = full_response

----
(* C18 *)

\* C18: every external call is made with a timeout, so the handling of a
\* query never waits without end for a service that does not answer: it
\* always goes on to a report, a rejection or an error message.
C18_NoCallWaitsWithoutEnd == pc # "hung"

----
(* C19 *)

\* the first match of pattern p in the query, as the code searches it, and
\* the ticker it gives
C19_Match(p) == FirstMatch(p, query, IgnoreCase)
C19_Ticker(p) == Str(Upper(C19_Match(p)))

\* extract_ticker of utils/polygon_mcp_util.py has reached its pattern loop
C19_Fallback == pc = "ticker_done" /\ entry = "home" /\ DictHits(query) = {}

\* every pattern finds in the query what it finds when case is respected
C19_CaseIrrelevant == \A p \in 1..4 : FirstMatch(p, query, FALSE) = C19_Match(p)

\* C19, as stated: in the pattern fallback a $-prefixed symbol decides first,
\* then a symbol followed by stock / price / shares / ticker (on queries
\* whose matches do not depend on case).
C19_SigilBeforeTypedWord ==
    (C19_Fallback /\ C19_CaseIrrelevant) =>
        IF C19_Match(3) # <<>> THEN ticker = C19_Ticker(3)
        ELSE C19_Match(1) # <<>> => ticker = C19_Ticker(1)

\* C19, amended: in the pattern fallback the patterns decide in the order
\* symbol followed by stock / price / shares / ticker, symbol preceded by
\* ticker / symbol, $-prefixed symbol, bare token of 2 to 5 letters; the
\* first pattern with a match gives its first match, upper-cased, and without
\* any match the result is absent.
C19_TypedWordBeforeSigil ==
    C19_Fallback =>
        ticker = IF C19_Match(1) # <<>> THEN C19_Ticker(1)
                 ELSE IF C19_Match(2) # <<>> THEN C19_Ticker(2)
                 ELSE IF C19_Match(3) # <<>> THEN C19_Ticker(3)
                 ELSE IF C19_Match(4) # <<>> THEN C19_Ticker(4)
                 ELSE None

\* a query with both a $-prefixed symbol and another symbol before a typed word
C19_Witness ==
    /\ C19_Fallback
    /\ C19_Match(3) # <<>>
    /\ C19_Match(1) # <<>>
    /\ C19_Ticker(1) # C19_Ticker(3)
    /\ C19_CaseIrrelevant

----
(* C20 *)

\* the displayed fields of the details payload and the lines that show them
C20_Fields == {<<"name", "company">>, <<"market", "market">>, <<"type", "type">>,
               <<"currency_name", "currency">>}

\* C20: in the ticker-details section of analyze_stock_query a displayed
\* field the payload lacks is shown as "N/A".
C20_MissingFieldIsNA ==
    (entry = "home" /\ Called("details") /\ HasResults(got.details) /\ raised = "none") =>
        \A f \in C20_Fields :
            got.details.results[f[1]].t = "missing" =>
                \A i \in LinesOfKind(response, f[2]) : response[i].t[2] = "N/A"

----
(* C21 *)

\* the change and its percentage for the open and close prices (in cents) of
\* the payloads, as text
C21_ChangeText(o, c) ==
    CASE o = 10000 /\ c = 11000 -> <<"+10.00", "+10.00">>
      [] o = 10000 /\ c = 10000 -> <<"+0.00", "+0.00">>
      [] o = 11000 /\ c = 10000 -> <<"-10.00", "-9.09">>
      [] o = 10000 /\ c = 0 -> <<"-100.00", "-100.00">>

\* the previous-close block of analyze_stock_query has been appended
C21_PriceRendered ==
    entry = "home" /\ Called("price") /\ HasResults(got.price) /\ raised = "none"

\* C21: whenever the price payload carries an open and a close number and the
\* open is not zero, close 0 and close = open included, the report has one
\* daily-change line showing close - open and its percentage of the open,
\* both signed and with two decimals.
C21_ChangeLineForEveryClose ==
    C21_PriceRendered =>
        LET bar == got.price.results.items[1]
        IN  (bar.o.t = "num" /\ bar.c.t = "num" /\ bar.o.n # 0) =>
                /\ Cardinality(LinesOfKind(response, "change")) = 1
                /\ \A i \in LinesOfKind(response, "change") :
                      response[i].t = <<"**Daily Change:** ", C21_ChangeText(bar.o.n, bar.c.n)[1],
                                        " (", C21_ChangeText(bar.o.n, bar.c.n)[2], "%)">>

----
(* C22 *)

\* how many times the gateway method of a data kind has been called
C22_Count(k) == Cardinality({i \in 1..Len(calls) : calls[i] = k})

\* analyze_stock_query was entered with a resolvable query and has ended
C22_AnalysisEnded == entry = "home" /\ ticker # None /\ pc \in {"analysed", "offer", "done"}

\* C22: for a resolved ticker analyze_stock_query issues the details call,
\* the price call and the news call exactly once each, whatever the calls
\* made before returned; no call is repeated.
C22_EachCallExactlyOnce ==
    /\ \A k \in GatewayKinds : C22_Count(k) <= 1
    /\ C22_AnalysisEnded => \A k \in GatewayKinds : C22_Count(k) = 1

----
(* C23 *)

\* the call answered 200 with a decodable body whose results are empty or
\* missing
C23_Absent(h) == h.status = 200 /\ h.decodable /\ ~HasResults(h)

C23_HasWarning(report, kind) == LinesOfKind(report, WarningKind(kind)) # {}

\* C23: in a report of analyze_stock_query a call that succeeded with empty
\* or missing results has a warning line in place of its section, so that
\* for each of details, price and news the report holds exactly one of the
\* section and a warning line.
C23_SectionOrWarning ==
    (entry = "home" /\ ReportReturned) =>
        \A kind \in GatewayKinds :
            /\ C23_Absent(got[kind]) => C23_HasWarning(polygon_data, kind)
            /\ HasSection(polygon_data, kind) # C23_HasWarning(polygon_data, kind)

----
(* C24 *)

\* C24: when a handler of Home.py has finished handling a submitted query,
\* the message list has grown by one user message, the query, followed by one
\* assistant message, whichever path was taken.
C24_HistoryStaysPaired ==
    (entry = "home" /\ pc = "done") =>
        /\ Len(messages) = 2
        /\ messages[1] = Message("user", <<Line("query", <<Str(query)>>)>>)
        /\ messages[2].role = "assistant"

----
(* C25 *)

\* two saves were made for the same ticker at readings of the same second
C25_SameTickerAndSecond(a, b) == a.ticker = b.ticker /\ a.reading.second = b.reading.second

\* no save after the j-th returned the path p
C25_LastTo(j, p) == \A k \in (j + 1)..Len(calls) : calls[k].returned # p

\* the only file at the path p holds what the save b wrote
C25_HoldsOnly(p, b) ==
    {g \in saved : g.path = p} = {SaveReport(entry, b.content, b.ticker, strftime(b.reading))}

\* C25: two saves for the same ticker whose clock readings fall in the same
\* second return the same path, and the file at that path then holds only
\* what the later save wrote; saves whose tickers or seconds differ return
\* different paths.
C25_SameSecondSavesOverwrite ==
    pc = "save_returned" =>
        \A i, j \in 1..Len(calls) :
            i < j =>
                IF C25_SameTickerAndSecond(calls[i], calls[j])
                THEN /\ calls[i].returned = calls[j].returned
                     /\ C25_LastTo(j, calls[j].returned) => C25_HoldsOnly(calls[j].returned, calls[j])
                ELSE calls[i].returned # calls[j].returned

\* the same ticker saved twice within one second, with different contents
C25_Witness ==
    /\ pc = "save_returned"
    /\ Len(calls) = 2
    /\ C25_SameTickerAndSecond(calls[1], calls[2])
    /\ calls[1].reading # calls[2].reading
    /\ calls[1].content # calls[2].content
    /\ Cardinality(saved) = 1

----
(* C26 *)

\* the texts of a mantissa from 1.0 to 999.9 with one decimal, between a
\* prefix and the letter of the scale
C26_BelowThousand(prefix, letter) == {prefix \o Fixed1(tenths) \o letter : tenths \in 10..9999}

\* C26: a volume below 1,000,000 that is shown in thousands, and a market cap
\* below 1e9 that is shown in millions, is printed with a mantissa below
\* 1000.0: never as "1000.0K" or "$1000.0M".
C26_ScaledMantissaBelowThousand ==
    /\ \A i \in LinesOfKind(response, "volume") :
          LET v == got.price.results.items[1].v.n
          IN  (1000 <= v /\ v < 1000000) => response[i].t[2] \in C26_BelowThousand("", "K")
    /\ \A i \in LinesOfKind(response, "market_cap") :
          LET cap == got.details.results.market_cap.n
          IN  (1000000 <= cap /\ cap < 1000000000) => response[i].t[2] \in C26_BelowThousand("$", "M")

====
